---- MODULE Spec2Model ----
(***************************************************************************)
(* Model of client/src/utils.js of the ticket application: the descending *)
(* pagination window (descPagination) and the error classification layer  *)
(* (ERRORS, ErrorHandler, toErrorHandler, handleError).                   *)
(*                                                                         *)
(* JavaScript strings are TLA+ strings (sequences of characters: Len, \o  *)
(* and SubSeq act on them character by character).  The other JavaScript  *)
(* values are records tagged with their type.                             *)
(***************************************************************************)
EXTENDS Integers, Sequences

VARIABLES
    args,       \* arguments of the latest descPagination call
    win,        \* the window that call returned
    hist,       \* windows of pages 1, 2, ... of a walk started at page 1
    error,      \* the error value the error source has raised
    parts,      \* number of text fragments the raised error's text is made of
    op,         \* the latest call on it: "none", "toErrorHandler", "handleError"
    outcome,    \* how that call completed: "none", "returned", "threw"
    handler,    \* << >>, or <<the ErrorHandler object the call constructed>>
    out,        \* the alert / console.error calls handleError issued, in order
    errors,     \* the ERRORS object in the heap (its six row objects)
    writes      \* number of writes callers have made through a record

pageVars == <<args, win, hist>>

errVars == <<error, parts, op, outcome, handler, out, errors, writes>>

vars == <<args, win, hist, error, parts, op, outcome, handler, out, errors, writes>>

(***************************************************************************)
(* Bounds of the pagination model.                                         *)
(***************************************************************************)
MaxTotal == 8
MaxPage == 10
MaxPerPage == 4

\* default value of the perPage parameter
DefaultPerPage == 10

(***************************************************************************)
(* descPagination(total, page = 1, perPage = 10, zeroBased = true)         *)
(***************************************************************************)

\* descPagination with the zero-based shift of total left out
descPagination_noShift(total, page, perPage, zeroBased) ==
    LET maxId == total - ((page - 1) * perPage)
        min == IF zeroBased THEN -1 ELSE 0
        minId == IF (maxId - perPage) < min THEN min ELSE (maxId - perPage)
        hasPrev == maxId < total
        hasNext == minId > min
    IN  [maxId |-> maxId, minId |-> minId, hasPrev |-> hasPrev, hasNext |-> hasNext]

\* descPagination with maxId clamped to the floor as minId is
descPagination_clampMax(total, page, perPage, zeroBased) ==
    LET total_ == IF zeroBased THEN (total - 1) ELSE total
        min == IF zeroBased THEN -1 ELSE 0
        raw == total_ - ((page - 1) * perPage)
        maxId == IF raw < min THEN min ELSE raw
        minId == IF (maxId - perPage) < min THEN min ELSE (maxId - perPage)
        hasPrev == maxId < total_
        hasNext == minId > min
    IN  [maxId |-> maxId, minId |-> minId, hasPrev |-> hasPrev, hasNext |-> hasNext]

\* descPagination with minId not clamped to the floor
descPagination_noClamp(total, page, perPage, zeroBased) ==
    LET total_ == IF zeroBased THEN (total - 1) ELSE total
        maxId == total_ - ((page - 1) * perPage)
        min == IF zeroBased THEN -1 ELSE 0
        minId == maxId - perPage
        hasPrev == maxId < total_
        hasNext == minId > min
    IN  [maxId |-> maxId, minId |-> minId, hasPrev |-> hasPrev, hasNext |-> hasNext]

\* descPagination with hasNext taken from maxId instead of minId
descPagination_nextFromMax(total, page, perPage, zeroBased) ==
    LET total_ == IF zeroBased THEN (total - 1) ELSE total
        maxId == total_ - ((page - 1) * perPage)
        min == IF zeroBased THEN -1 ELSE 0
        minId == IF (maxId - perPage) < min THEN min ELSE (maxId - perPage)
        hasPrev == maxId < total_
        hasNext == maxId > min
    IN  [maxId |-> maxId, minId |-> minId, hasPrev |-> hasPrev, hasNext |-> hasNext]

\* descPagination with an inclusive lower bound (one index overlaps per page)
descPagination_overlap(total, page, perPage, zeroBased) ==
    LET total_ == IF zeroBased THEN (total - 1) ELSE total
        maxId == total_ - ((page - 1) * perPage)
        min == IF zeroBased THEN -1 ELSE 0
        minId == IF (maxId - perPage - 1) < min THEN min ELSE (maxId - perPage - 1)
        hasPrev == maxId < total_
        hasNext == minId > min
    IN  [maxId |-> maxId, minId |-> minId, hasPrev |-> hasPrev, hasNext |-> hasNext]

\* total_ is the reassigned parameter `total` of the source (line 180)
descPagination(total, page, perPage, zeroBased) ==
    LET total_ == IF zeroBased THEN (total - 1) ELSE total
        maxId == total_ - ((page - 1) * perPage)
        min == IF zeroBased THEN -1 ELSE 0
        minId == IF (maxId - perPage) < min THEN min ELSE (maxId - perPage)
        hasPrev == maxId < total_
        hasNext == minId > min
    IN  [maxId |-> maxId, minId |-> minId, hasPrev |-> hasPrev, hasNext |-> hasNext]

PageInit ==
    /\ args = [total |-> 0, page |-> 1, perPage |-> DefaultPerPage, zeroBased |-> TRUE]
    /\ win = descPagination(0, 1, DefaultPerPage, TRUE)
    /\ hist = <<descPagination(0, 1, DefaultPerPage, TRUE)>>

\* a call with all four arguments given; a call for page 1 starts a walk
CallDescPagination(total, page, perPage, zeroBased) ==
    /\ args' = [total |-> total, page |-> page, perPage |-> perPage,
                zeroBased |-> zeroBased]
    /\ win' = descPagination(total, page, perPage, zeroBased)
    /\ hist' = IF page = 1 THEN <<win'>> ELSE << >>
    /\ UNCHANGED errVars

\* a call that leaves page, perPage and zeroBased to their defaults
CallDescPaginationDefaults(total) ==
    /\ args' = [total |-> total, page |-> 1, perPage |-> DefaultPerPage,
                zeroBased |-> TRUE]
    /\ win' = descPagination(total, 1, DefaultPerPage, TRUE)
    /\ hist' = <<win'>>
    /\ UNCHANGED errVars

\* the same call again for the following page, the other arguments held fixed
CallNextPage ==
    /\ args.page < MaxPage
    /\ args' = [args EXCEPT !.page = args.page + 1]
    /\ win' = descPagination(args.total, args.page + 1, args.perPage, args.zeroBased)
    /\ hist' = IF hist # << >> THEN Append(hist, win') ELSE << >>
    /\ UNCHANGED errVars

PageNext ==
    \/ \E total \in 0..MaxTotal, page \in 1..MaxPage, perPage \in 1..MaxPerPage,
          zeroBased \in BOOLEAN :
            CallDescPagination(total, page, perPage, zeroBased)
    \/ \E total \in 0..MaxTotal : CallDescPaginationDefaults(total)
    \/ CallNextPage

(***************************************************************************)
(* JavaScript values and the language operations the classifier uses.      *)
(***************************************************************************)

Undefined == [type |-> "undefined"]
Null == [type |-> "null"]
Str(s) == [type |-> "string", str |-> s]
Num(n) == [type |-> "number", num |-> n]
\* an object; class is "Error" for a native Error, "Object" for a plain
\* object; message is the value of its message property (Undefined: none)
Obj(class, message) == [type |-> "object", class |-> class, message |-> message]

\* typeof v: null is an "object"
typeof(v) == IF v.type = "null" THEN "object" ELSE v.type

\* v instanceof Error
instanceofError(v) == v.type = "object" /\ v.class = "Error"

\* ToBoolean on the values a message property holds
Truthy(v) ==
    CASE v.type = "string" -> v.str # ""
      [] v.type = "number" -> v.num # 0
      [] v.type = "object" -> TRUE
      [] OTHER -> FALSE

Digit == <<"0", "1", "2", "3", "4", "5", "6", "7", "8", "9">>

RECURSIVE NumberToString(_)
NumberToString(n) ==
    IF n < 10 THEN Digit[n + 1]
    ELSE NumberToString(n \div 10) \o Digit[(n % 10) + 1]

\* ToString on the values that reach the Error constructor
ToString(v) ==
    CASE v.type = "string" -> v.str
      [] v.type = "number" -> NumberToString(v.num)
      [] v.type = "undefined" -> "undefined"
      [] v.type = "null" -> "null"
      [] v.type = "object" -> "[object Object]"

\* new Error(x): no own message for undefined (Error.prototype.message is ""),
\* else ToString(x)
NewError(x) ==
    Obj("Error", Str(IF x.type = "undefined" THEN "" ELSE ToString(x)))

\* s.includes(searchString)
includes(s, searchString) ==
    \E i \in 0..(Len(s) - Len(searchString)) :
        SubSeq(s, i + 1, i + Len(searchString)) = searchString

(***************************************************************************)
(* const ERRORS: the signature table, its keys in declaration order.       *)
(***************************************************************************)
ERRORS == <<
    [key |-> "You have no Metamask installed",
     displayError |-> TRUE, log |-> FALSE,
     message |-> "You have no Metamask installed."],
    [key |-> "You are connected to the wrong network",
     displayError |-> TRUE, log |-> FALSE,
     message |-> "You are connected to the wrong network."],
    [key |-> "User rejected the request",
     displayError |-> TRUE, log |-> FALSE,
     message |-> "You rejected the connect request."],
    [key |-> "User denied transaction signature",
     displayError |-> FALSE, log |-> FALSE,
     message |-> "MetaMask Tx Signature: User denied transaction signature."],
    [key |-> "Loketh: Organizer can not buy their own event",
     displayError |-> TRUE, log |-> FALSE,
     message |-> "You can not buy a ticket from your own event."],
    [key |-> "Loketh: Participant already bought the ticket",
     displayError |-> TRUE, log |-> FALSE,
     message |-> "You are already buy this ticket."] >>

\* Object.keys(ERRORS).find(...) returning the last match instead of the first
FindKey_last(text) ==
    LET hits == {i \in 1..Len(ERRORS) : includes(text, ERRORS[i].key)}
    IN  IF hits = {} THEN 0
        ELSE CHOOSE i \in hits : \A j \in hits : j <= i

\* Object.keys(ERRORS).find(err => text.includes(err)): the index of the first
\* key, in declaration order, that text includes; 0 stands for undefined
FindKey(text) ==
    LET hits == {i \in 1..Len(ERRORS) : includes(text, ERRORS[i].key)}
    IN  IF hits = {} THEN 0
        ELSE CHOOSE i \in hits : \A j \in hits : i <= j

(***************************************************************************)
(* class ErrorHandler.  An instance is [error, _error]; _error is a         *)
(* reference to a row object of ERRORS (its index), or 0 for null.         *)
(***************************************************************************)

\* the constructor; completion is "normal" with the instance, or "throw":
\* reading error.message of null throws a TypeError
ErrorHandler(e) ==
    IF instanceofError(e)
    THEN [completion |-> "normal",
          this |-> [error |-> e, _error |-> FindKey(e.message.str)]]
    ELSE IF typeof(e) = "object"
    THEN IF e.type = "null"
         THEN [completion |-> "throw"]
         ELSE IF Truthy(e.message)
         THEN [completion |-> "normal",
               this |-> [error |-> NewError(e.message),
                         _error |-> FindKey(NewError(e.message).message.str)]]
         ELSE [completion |-> "normal",
               this |-> [error |-> NewError(e),
                         _error |-> FindKey(NewError(e).message.str)]]
    ELSE [completion |-> "normal",
          this |-> [error |-> NewError(e),
                    _error |-> FindKey(NewError(e).message.str)]]

\* get displayError()
displayError(this) ==
    IF this._error # 0 THEN errors[this._error].displayError ELSE TRUE

\* get log() with the fallback of an unmatched error switched off
log_defaultFalse(this) ==
    IF this._error # 0 THEN errors[this._error].log ELSE FALSE

\* get log()
log(this) ==
    IF this._error # 0 THEN errors[this._error].log ELSE TRUE

\* get message()
message(this) ==
    IF this._error # 0 THEN errors[this._error].message ELSE "Something went wrong."

\* toErrorHandler(error)
toErrorHandler(e) == ErrorHandler(e)

\* the body of handleError after toErrorHandler returned: its calls in order
handleErrorCalls(errorHandler, e) ==
    (IF displayError(errorHandler)
     THEN <<[sink |-> "alert", arg |-> Str(message(errorHandler))]>>
     ELSE << >>)
    \o
    (IF log(errorHandler)
     THEN <<[sink |-> "console.error", arg |-> e]>>
     ELSE << >>)

(***************************************************************************)
(* The error source: the values a wallet, provider or contract call raises.*)
(***************************************************************************)
MaxParts == 2
MaxWrites == 1

\* pieces of error text: the six signatures, text around them, near misses
Fragments ==
    {ERRORS[i].key : i \in 1..Len(ERRORS)} \cup
    {"revert ", " by account", "timeout", "User rejected the ", "request",
     "user denied transaction signature", "wrong network"}

Shapes == {"Error", "Object", "string"}

\* the error of a shape that carries a text
Carrying(shape, text) ==
    IF shape = "string" THEN Str(text) ELSE Obj(shape, Str(text))

\* the values that carry no text fragment
Others ==
    {Undefined, Null, Num(0), Num(7), Num(404), Str(""),
     Obj("Error", Str("")), Obj("Object", Undefined), Obj("Object", Str("")),
     Obj("Object", Num(0)), Obj("Object", Num(4001)), Obj("Object", Null)}

\* the text the raised error carries
TextOf(v) == IF v.type = "string" THEN v.str ELSE v.message.str

ShapeOf(v) == IF v.type = "string" THEN "string" ELSE v.class

Fresh ==
    /\ op' = "none"
    /\ outcome' = "none"
    /\ handler' = << >>
    /\ out' = << >>

\* the error source raises an error of a shape with a first piece of text
Raise(shape, f) ==
    /\ error' = Carrying(shape, f)
    /\ parts' = 1
    /\ Fresh
    /\ UNCHANGED <<errors, writes>>

\* a layer in between adds text after the raised error's text
Extend(f) ==
    /\ parts >= 1
    /\ parts < MaxParts
    /\ error' = Carrying(ShapeOf(error), TextOf(error) \o f)
    /\ parts' = parts + 1
    /\ Fresh
    /\ UNCHANGED <<errors, writes>>

\* the error source raises a value without text
RaiseOther(v) ==
    /\ error' = v
    /\ parts' = 0
    /\ Fresh
    /\ UNCHANGED <<errors, writes>>

(***************************************************************************)
(* The exported operations.                                                *)
(***************************************************************************)

\* a caller runs toErrorHandler(error)
CallToErrorHandler ==
    /\ op' = "toErrorHandler"
    /\ LET c == toErrorHandler(error)
       IN  IF c.completion = "throw"
           THEN outcome' = "threw" /\ handler' = << >>
           ELSE outcome' = "returned" /\ handler' = <<c.this>>
    /\ out' = << >>
    /\ UNCHANGED <<error, parts, errors, writes>>

\* a caller runs handleError(error); a throw of toErrorHandler propagates
\* before anything is issued
CallHandleError ==
    /\ op' = "handleError"
    /\ LET c == toErrorHandler(error)
       IN  IF c.completion = "throw"
           THEN outcome' = "threw" /\ handler' = << >> /\ out' = << >>
           ELSE /\ outcome' = "returned"
                /\ handler' = <<c.this>>
                /\ out' = handleErrorCalls(c.this, error)
    /\ UNCHANGED <<error, parts, errors, writes>>

(***************************************************************************)
(* What a caller can do to the ErrorHandler object toErrorHandler returned  *)
(* to it (the one handleError constructs stays local to handleError).      *)
(***************************************************************************)

\* handler.field = v on displayError, log or message: the class defines a
\* getter and no setter, so the assignment changes nothing (strict code gets
\* a TypeError)
AssignAccessor(strict) ==
    /\ handler # << >>
    /\ op # "handleError"
    /\ outcome' = IF strict THEN "threw" ELSE "returned"
    /\ op' = "assign"
    /\ UNCHANGED <<error, parts, handler, out, errors, writes>>

\* handler._error.field = v: _error references the row object of ERRORS
WriteThroughError(field, v) ==
    /\ handler # << >>
    /\ op # "handleError"
    /\ handler[1]._error # 0
    /\ writes < MaxWrites
    /\ errors' = [errors EXCEPT ![handler[1]._error][field] = v]
    /\ writes' = writes + 1
    /\ op' = "write"
    /\ outcome' = "returned"
    /\ UNCHANGED <<error, parts, handler, out>>

ErrInit ==
    /\ error = Undefined
    /\ parts = 0
    /\ op = "none"
    /\ outcome = "none"
    /\ handler = << >>
    /\ out = << >>
    /\ errors = ERRORS
    /\ writes = 0

Init == PageInit /\ ErrInit

Next ==
    \/ \E shape \in Shapes, f \in Fragments : Raise(shape, f) /\ UNCHANGED pageVars
    \/ \E f \in Fragments : Extend(f) /\ UNCHANGED pageVars
    \/ \E v \in Others : RaiseOther(v) /\ UNCHANGED pageVars
    \/ CallToErrorHandler /\ UNCHANGED pageVars
    \/ CallHandleError /\ UNCHANGED pageVars

CallerNext ==
    \/ Next
    \/ \E strict \in BOOLEAN : AssignAccessor(strict) /\ UNCHANGED pageVars
    \/ \E v \in BOOLEAN : WriteThroughError("displayError", v) /\ UNCHANGED pageVars
    \/ \E v \in BOOLEAN : WriteThroughError("log", v) /\ UNCHANGED pageVars
    \/ WriteThroughError("message", "Oops") /\ UNCHANGED pageVars

\* the classifier and handleError on the errors the error source raises
Spec == Init /\ [][Next]_vars

\* the same with callers that modify the records they received
CallerSpec == Init /\ [][CallerNext]_vars

\* calls of descPagination
PageSpec == Init /\ [][PageNext]_vars

(***************************************************************************)
(* Properties of the classifier and of handleError.                        *)
(***************************************************************************)

\* pat occurs in s at position i
OccursAt(pat, s, i) ==
    /\ i + Len(pat) - 1 <= Len(s)
    /\ SubSeq(s, i, i + Len(pat) - 1) = pat

\* pat occurs somewhere in s
Occurs(pat, s) == \E i \in 1..Len(s) : OccursAt(pat, s, i)

\* the rows of the declared table whose pattern occurs in s
Matching(s) == {i \in 1..Len(ERRORS) : Occurs(ERRORS[i].key, s)}

\* the displayError / log / message triple of a row
Triple(row) ==
    [displayError |-> row.displayError, log |-> row.log, message |-> row.message]

\* the record a caller reads off an ErrorHandler object
Record(this) ==
    [displayError |-> displayError(this), log |-> log(this),
     message |-> message(this)]

DefaultRecord ==
    [displayError |-> TRUE, log |-> TRUE, message |-> "Something went wrong."]

\* a call has returned an ErrorHandler object
Returned == outcome = "returned" /\ handler # << >>

\* the normalized message of the returned object
Normalized == handler[1].error.message.str

\* C1: toErrorHandler completes for every input value, null included, and
\* yields a record with a boolean displayError, a boolean log and a message.
C1_ClassifyNeverThrows ==
    (op = "toErrorHandler") =>
        /\ Returned
        /\ displayError(handler[1]) \in BOOLEAN
        /\ log(handler[1]) \in BOOLEAN
        /\ message(handler[1]) \in
              {ERRORS[i].message : i \in 1..Len(ERRORS)} \cup {DefaultRecord.message}

\* C3: the record returned is the declared triple of the earliest row, in
\* declaration order, whose pattern occurs anywhere in the normalized message,
\* wherever in the message the patterns of later rows occur.
C3_FirstDeclaredMatchWins ==
    (Returned /\ op \in {"toErrorHandler", "handleError"}) =>
        \A i \in Matching(Normalized) :
            (\A j \in Matching(Normalized) : i <= j)
                => (Record(handler[1]) = Triple(ERRORS[i]))

C3_Witness ==
    /\ Returned
    /\ op = "toErrorHandler"
    /\ \E i, j \in Matching(Normalized) :
          /\ i < j
          /\ \E a, b \in 1..Len(Normalized) :
                /\ a < b
                /\ OccursAt(ERRORS[j].key, Normalized, a)
                /\ OccursAt(ERRORS[i].key, Normalized, b)
                /\ ~ \E c \in 1..a : OccursAt(ERRORS[i].key, Normalized, c)
          /\ Record(handler[1]) = Triple(ERRORS[i])

\* C4: when no pattern of the table occurs in the normalized message the
\* record is exactly the default one, and log is true iff no pattern occurs.
C4_DefaultIffNoMatch ==
    (Returned /\ op \in {"toErrorHandler", "handleError"}) =>
        /\ (Matching(Normalized) = {}) => (Record(handler[1]) = DefaultRecord)
        /\ (log(handler[1]) = TRUE) <=> (Matching(Normalized) = {})

C4_Witness ==
    /\ Returned
    /\ op = "toErrorHandler"
    /\ Occurs("user denied transaction signature", Normalized)
    /\ Matching(Normalized) = {}
    /\ Record(handler[1]) = DefaultRecord

\* C5: whatever callers do to the records they received, the signature table
\* stays as declared and a record read off a matched ErrorHandler object is
\* the declared triple of its row.
C5_ReturnedByValue ==
    /\ errors = ERRORS
    /\ (Returned /\ op = "toErrorHandler" /\ handler[1]._error # 0)
          => (Record(handler[1]) = Triple(ERRORS[handler[1]._error]))

\* C6: for every error value, handleError gets a record r from the classifier,
\* issues alert(r.message) once iff r.displayError, then console.error with
\* the original value once iff r.log, and nothing else.
C6_HandleErrorNotifiesAndLogs ==
    (op = "handleError") =>
        /\ Returned
        /\ out = (IF displayError(handler[1])
                  THEN <<[sink |-> "alert", arg |-> Str(message(handler[1]))]>>
                  ELSE << >>)
                 \o
                 (IF log(handler[1])
                  THEN <<[sink |-> "console.error", arg |-> error]>>
                  ELSE << >>)

(***************************************************************************)
(* Properties of the pagination window.                                    *)
(***************************************************************************)

\* the sentinel floor: one below the lowest valid index
Floor == IF args.zeroBased THEN -1 ELSE 0

\* the highest valid index
Top == IF args.zeroBased THEN args.total - 1 ELSE args.total

\* the valid indices of the collection
ValidIds == (Floor + 1)..Top

\* the indices a window covers: minId exclusive, maxId inclusive
Range(w) == (w.minId + 1)..w.maxId

\* ceil(total / perPage)
PageCount == (args.total + args.perPage - 1) \div args.perPage

SameCallNextPage ==
    /\ args'.page = args.page + 1
    /\ args'.total = args.total
    /\ args'.perPage = args.perPage
    /\ args'.zeroBased = args.zeroBased

\* C2 as stated: every window of a valid call has maxId >= minId, also on
\* pages past the last item.
C2_MaxIdAtLeastMinId == win.maxId >= win.minId

\* C2 amended: maxId >= minId holds exactly on the pages whose maxId is at or
\* above the sentinel floor, i.e. when (page - 1) * perPage <= total; on pages
\* further out minId is clamped to the floor and maxId lies below it.
C2_OrderedIffNotPastFloor ==
    /\ (win.maxId >= win.minId) <=> ((args.page - 1) * args.perPage <= args.total)
    /\ (win.maxId >= win.minId) <=> (win.maxId >= Floor)
    /\ (win.maxId < win.minId) => (win.minId = Floor)

C2_Witness ==
    /\ args.total >= 1
    /\ (args.page - 1) * args.perPage > args.total
    /\ win.maxId < Floor
    /\ win.minId = Floor

\* C7: hasNext is false iff minId equals the sentinel floor; hasNext is true
\* exactly when some valid index is <= minId; minId is never below the floor.
C7_HasNextIffAboveFloor ==
    /\ (win.hasNext = FALSE) <=> (win.minId = Floor)
    /\ win.hasNext <=> (\E i \in ValidIds : i <= win.minId)
    /\ win.minId >= Floor

C7_Witness ==
    /\ args.page > 1
    /\ win.maxId > Floor
    /\ win.minId = Floor
    /\ win.hasNext = FALSE

\* C8: on page 1 of a zero-based collection with total >= 1, maxId = total - 1
\* and hasPrev is false; hasPrev is true exactly when maxId is below the
\* highest valid index, which is exactly when page > 1.
C8_FirstPageAndHasPrev ==
    /\ (args.total >= 1 /\ args.page = 1 /\ args.zeroBased)
          => (win.maxId = args.total - 1 /\ win.hasPrev = FALSE)
    /\ win.hasPrev <=> (win.maxId < Top)
    /\ win.hasPrev <=> (args.page > 1)

C8_Witness ==
    /\ args.total >= 1
    /\ args.page = 1
    /\ args.zeroBased
    /\ args.perPage > 1
    /\ win.maxId = args.total - 1
    /\ win.hasPrev = FALSE

\* C9: a call for page + 1 with the other arguments held fixed returns the
\* maxId of the call for page minus exactly perPage, below the floor as well.
C9_NextPageLowersMaxIdByPerPage ==
    [][SameCallNextPage => (win'.maxId = win.maxId - args.perPage)]_vars

C9_Witness ==
    /\ Len(hist) >= 3
    /\ hist[Len(hist)] = win
    /\ hist[Len(hist) - 1].maxId < Floor
    /\ win.maxId = hist[Len(hist) - 1].maxId - args.perPage

\* C10: for total >= 1 the walk from page 1 that advances while hasNext is
\* true stops after exactly ceil(total / perPage) pages; the ranges
\* (minId, maxId] of its pages chain (each maxId is the previous minId), are
\* pairwise disjoint, and their union is exactly the set of valid indices.
C10_WalkCoversOnce ==
    (args.total >= 1 /\ hist # << >>) =>
        LET n == Len(hist)
            k == IF n < PageCount THEN n ELSE PageCount
        IN  /\ \A i \in 1..k : hist[i].hasNext <=> (i < PageCount)
            /\ \A i \in 2..k : hist[i].maxId = hist[i - 1].minId
            /\ \A i, j \in 1..k :
                  (i # j) => (Range(hist[i]) \cap Range(hist[j]) = {})
            /\ UNION {Range(hist[i]) : i \in 1..k} \subseteq ValidIds
            /\ (n >= PageCount)
                  => (UNION {Range(hist[i]) : i \in 1..PageCount} = ValidIds)

C10_Witness ==
    /\ args.total >= 1
    /\ PageCount >= 3
    /\ args.total % args.perPage # 0
    /\ Len(hist) = PageCount
    /\ win = hist[PageCount]
    /\ win.hasNext = FALSE
    /\ UNION {Range(hist[i]) : i \in 1..PageCount} = ValidIds

====
